---- MODULE Spec2Model ----
(***************************************************************************)
(* Archive Workforce: the task governance and audit engine of              *)
(* core/database.py (WorkforceDB) behind the intake routes of api/main.py. *)
(*                                                                         *)
(* The store is six tables kept as sequences of rows in insertion order:   *)
(* workforce_tasks, workforce_deliverables, workforce_insights,            *)
(* workforce_audit_log, workforce_events and workforce_autonomy_sessions.  *)
(* Every WorkforceDB method is                                             *)
(* an operator from a store value to an outcome and a new store value, so  *)
(* that methods compose the way the code composes them (approve_task calls *)
(* update_task, promote_insight_to_task calls create_task).  One action    *)
(* per intake operation runs the whole handler.                            *)
(*                                                                         *)
(* Columns that no condition of the code reads and no property below uses  *)
(* (title, description, tags, external_refs, due_at, parent_task_id,       *)
(* impact_score, effort_estimate, content) are left out of the rows.       *)
(***************************************************************************)
EXTENDS Integers, Sequences, FiniteSets, TLC

VARIABLES tasks, deliverables, insights, audit, events, sessions, ids, clock, last,
          answer, claimed, delivered, acked, listed, inflight

store_vars == <<tasks, deliverables, insights, audit, events, sessions, ids>>
\* What the callers hold: the answer of the autonomy resolver when the last
\* request was one to it, the batch each poller received from its last claim,
\* the events ever returned by a claim, and who acknowledged which event.
poll_vars == <<claimed, delivered, acked>>
\* The task list the last GET /tasks returned, and the update_task calls that
\* have read their task and not yet written it.
client_vars == <<listed, inflight>>
caller_vars == <<answer, claimed, delivered, acked, listed, inflight>>
vars == <<tasks, deliverables, insights, audit, events, sessions, ids, clock, last,
          answer, claimed, delivered, acked, listed, inflight>>

(***************************************************************************)
(* Bounds of the model.                                                    *)
(***************************************************************************)
\* Operations performed in one behaviour (the clock ticks once per operation).
MaxOps == 4
\* Rows of workforce_tasks.
MaxTasks == 2
\* Rows of workforce_insights.
MaxInsights == 1

(***************************************************************************)
(* Values.                                                                 *)
(***************************************************************************)
\* Python None / SQL NULL in a text column.
Null == "null"
\* SQL NULL in a uuid column.
NoId == 0
\* SQL NULL in a timestamp column.
NoTime == 0
\* Python None where a dict is expected (old_value, new_value, a missing row).
NoneDict == [none |-> TRUE]
\* The empty dict {}.
EmptyDict == [f \in {} |-> Null]
\* A keyword argument the caller did not supply.
Absent == "absent"

TaskStatus == {"BACKLOG", "IN_PROGRESS", "NEEDS_REVIEW", "DONE", "BLOCKED", "CANCELLED"}
Priority == {"P0", "P1", "P2", "P3"}

\* The X-Actor identities the requests carry: the router (the one identity
\* allowed to promote insights), a human operator and a worker agent.
Router == "jarvis"
Humans == {"alice"}
Agents == {"researcher"}
\* Inputs of the requests.
StatusInputs == {"IN_PROGRESS", "DONE"}
ApprovalInputs == {TRUE}
PriorityInputs == {Absent, "P0"}
OwnerInputs == {"researcher"}
ReasonInputs == {"rework"}
\* The pollers that acknowledge events.
Consumers == {"worker"}
\* The pollers that claim events and acknowledge what they received.
Pollers == {"worker", "notifier"}
\* The callers whose PATCH /tasks/{id} requests can be in flight together.
Updaters == {"alice", "researcher"}
\* No update_task call of the caller is between its read and its write.
NoRequest == [task_id |-> NoId, updates |-> EmptyDict, current |-> NoneDict]
\* No answer of the autonomy resolver yet.
NoAnswer == [agent_id |-> Null, now |-> NoTime, mode |-> Null]

\* d[k] = v, as the Python statement does it (the key is added or overwritten).
DictSet(d, k, v) == [f \in DOMAIN d \cup {k} |-> IF f = k THEN v ELSE d[f]]
\* {**a, **b}
DictMerge(a, b) == [f \in DOMAIN a \cup DOMAIN b |-> IF f \in DOMAIN b THEN b[f] ELSE a[f]]
\* d.get(k) for a text value.
DictGet(d, k) == IF k \in DOMAIN d THEN d[k] ELSE Null
\* Python truthiness of an optional string.
Truthy(s) == s # Null /\ s # ""

\* The store as one value, and an operation's result.
Store == [tasks |-> tasks, deliverables |-> deliverables, insights |-> insights,
          audit |-> audit, events |-> events, sessions |-> sessions, ids |-> ids]
Ok(db, ret) == [db |-> db, outcome |-> "ok", ret |-> ret]
Raise(db, what) == [db |-> db, outcome |-> what, ret |-> NoId]

\* str(uuid4()): an identifier no row of any table carries yet.
uuid4(db) == db.ids + 1

(***************************************************************************)
(* AUDIT & EVENTS (internal).                                              *)
(***************************************************************************)
\* _log_audit writing the newest entry at the head of the log.
_log_audit_at_head(db, event_type, entity_type, entity_id, actor, actor_type, old_value, new_value, metadata, now) ==
    [db EXCEPT !.ids = uuid4(db),
               !.audit = <<[id |-> uuid4(db),
                            event_type |-> event_type,
                            entity_type |-> entity_type,
                            entity_id |-> entity_id,
                            actor |-> actor,
                            actor_type |-> actor_type,
                            old_value |-> old_value,
                            new_value |-> new_value,
                            metadata |-> IF metadata = NoneDict \/ metadata = EmptyDict
                                         THEN EmptyDict ELSE metadata,
                            created_at |-> now]>> \o @]

_log_audit(db, event_type, entity_type, entity_id, actor, actor_type, old_value, new_value, metadata, now) ==
    [db EXCEPT !.ids = uuid4(db),
               !.audit = Append(@, [id |-> uuid4(db),
                                    event_type |-> event_type,
                                    entity_type |-> entity_type,
                                    entity_id |-> entity_id,
                                    actor |-> actor,
                                    actor_type |-> actor_type,
                                    old_value |-> old_value,
                                    new_value |-> new_value,
                                    metadata |-> IF metadata = NoneDict \/ metadata = EmptyDict
                                                 THEN EmptyDict ELSE metadata,
                                    created_at |-> now])]

_create_event(db, event_type, payload, now) ==
    [db EXCEPT !.ids = uuid4(db),
               !.events = Append(@, [id |-> uuid4(db),
                                     event_type |-> event_type,
                                     payload |-> payload,
                                     processed |-> FALSE,
                                     processed_at |-> NoTime,
                                     processed_by |-> Null,
                                     created_at |-> now])]

(***************************************************************************)
(* TASKS.                                                                  *)
(***************************************************************************)
get_task(db, task_id) ==
    LET rows == SelectSeq(db.tasks, LAMBDA r : r.id = task_id)
    IN  IF rows = << >> THEN NoneDict ELSE rows[1]

get_deliverables(db, task_id) ==
    SelectSeq(db.deliverables, LAMBDA r : r.task_id = task_id)

\* The default taken from the column comment's lowest priority.
priority_default_lowest(priority) ==
    IF priority = Absent THEN "P3" ELSE priority

\* priority: str = "P2"
priority_default(priority) ==
    IF priority = Absent THEN "P2" ELSE priority

create_task(db, owner_agent, assigned_by, priority, source, requires_approval, now) ==
    LET task_id == uuid4(db)
        prio == priority_default(priority)
        task_data == [id |-> task_id,
                      owner_agent |-> owner_agent,
                      assigned_by |-> assigned_by,
                      status |-> "BACKLOG",
                      priority |-> prio,
                      source |-> source,
                      requires_approval |-> requires_approval,
                      approved_by |-> Null,
                      approved_at |-> NoTime,
                      created_at |-> now,
                      updated_at |-> now]
        db1 == [db EXCEPT !.ids = task_id, !.tasks = Append(@, task_data)]
        db2 == _log_audit(db1, "TASK_CREATED", "task", task_id, assigned_by,
                          IF assigned_by \in {"jarvis", "system"} THEN "agent" ELSE "human",
                          NoneDict, task_data, NoneDict, now)
        db3 == _create_event(db2, "TASK_CREATED",
                             [task_id |-> task_id, owner_agent |-> owner_agent,
                              priority |-> prio], now)
    IN  Ok(db3, task_id)

\* done_gate with the approval test applied to every task.
done_gate_approval_for_all(db, current, task_id, new_status) ==
    IF new_status = "DONE" /\ current.status # "DONE"
    THEN IF get_deliverables(db, task_id) = << >>
         THEN "PreconditionFailed"
         ELSE IF ~Truthy(current.approved_by) THEN "PreconditionFailed" ELSE "ok"
    ELSE "ok"

\* done_gate without the approval test.
done_gate_no_approval(db, current, task_id, new_status) ==
    IF new_status = "DONE" /\ current.status # "DONE"
       /\ get_deliverables(db, task_id) = << >>
    THEN "PreconditionFailed"
    ELSE "ok"

\* done_gate without the deliverable test.
done_gate_no_deliverable(db, current, task_id, new_status) ==
    IF new_status = "DONE" /\ current.status # "DONE"
       /\ current.requires_approval /\ ~Truthy(current.approved_by)
    THEN "PreconditionFailed"
    ELSE "ok"

\* The DONE gate of update_task: "ok", or the ValueError it raises.
done_gate(db, current, task_id, new_status) ==
    IF new_status = "DONE" /\ current.status # "DONE"
    THEN IF get_deliverables(db, task_id) = << >>
         THEN "PreconditionFailed"
         ELSE IF current.requires_approval /\ ~Truthy(current.approved_by)
              THEN "PreconditionFailed"
              ELSE "ok"
    ELSE "ok"

\* status_changed without the comparison with the old status.
status_changed_whenever_given(old_status, new_status) ==
    Truthy(new_status)

\* if new_status and new_status != old_status
status_changed(old_status, new_status) ==
    Truthy(new_status) /\ new_status # old_status

\* The payload with the old status read after the update was applied.
status_changed_payload_stale(task_id, old_status, new_status) ==
    [task_id |-> task_id, old_status |-> new_status, new_status |-> new_status]

\* The payload of the STATUS_CHANGED event.
status_changed_payload(task_id, old_status, new_status) ==
    [task_id |-> task_id, old_status |-> old_status, new_status |-> new_status]

\* update_task that writes the row before it applies the DONE gate.
update_task_write_first(db, task_id, actor, updates, now) ==
    LET current == get_task(db, task_id)
        new_status == DictGet(updates, "status")
        upd == DictSet(updates, "updated_at", now)
        db1 == [db EXCEPT !.tasks =
                   [i \in DOMAIN @ |-> IF @[i].id = task_id
                                       THEN DictMerge(@[i], upd) ELSE @[i]]]
    IN  IF current = NoneDict THEN Raise(db, "NotFound")
        ELSE IF done_gate(db, current, task_id, new_status) # "ok"
             THEN Raise(db1, done_gate(db, current, task_id, new_status))
        ELSE Ok(db1, task_id)

\* update_task whose audit entry reads the old values after the write.
update_task_audit_after(db, task_id, actor, updates, now) ==
    LET current == get_task(db, task_id)
        old_status == current.status
        new_status == DictGet(updates, "status")
        upd == DictSet(updates, "updated_at", now)
        db1 == [db EXCEPT !.tasks =
                   [i \in DOMAIN @ |-> IF @[i].id = task_id
                                       THEN DictMerge(@[i], upd) ELSE @[i]]]
        db2 == _log_audit(db1, "TASK_UPDATED", "task", task_id, actor,
                          IF actor \in {"jarvis", "chief_of_staff", "ops_tracker",
                                        "distribution", "researcher", "system"}
                          THEN "agent" ELSE "human",
                          [k \in DOMAIN upd |-> get_task(db1, task_id)[k]], upd,
                          NoneDict, now)
        db3 == IF status_changed(old_status, new_status)
               THEN _create_event(db2, "STATUS_CHANGED",
                                  status_changed_payload(task_id, old_status, new_status),
                                  now)
               ELSE db2
    IN  IF current = NoneDict THEN Raise(db, "NotFound")
        ELSE IF done_gate(db, current, task_id, new_status) # "ok"
             THEN Raise(db, done_gate(db, current, task_id, new_status))
        ELSE Ok(db3, task_id)

update_task(db, task_id, actor, updates, now) ==
    LET current == get_task(db, task_id)
        old_status == current.status
        new_status == DictGet(updates, "status")
        upd == DictSet(updates, "updated_at", now)
        db1 == [db EXCEPT !.tasks =
                   [i \in DOMAIN @ |-> IF @[i].id = task_id
                                       THEN DictMerge(@[i], upd) ELSE @[i]]]
        db2 == _log_audit(db1, "TASK_UPDATED", "task", task_id, actor,
                          IF actor \in {"jarvis", "chief_of_staff", "ops_tracker",
                                        "distribution", "researcher", "system"}
                          THEN "agent" ELSE "human",
                          [k \in DOMAIN upd |-> current[k]], upd, NoneDict, now)
        db3 == IF status_changed(old_status, new_status)
               THEN _create_event(db2, "STATUS_CHANGED",
                                  status_changed_payload(task_id, old_status, new_status),
                                  now)
               ELSE db2
    IN  IF current = NoneDict THEN Raise(db, "NotFound")
        ELSE IF done_gate(db, current, task_id, new_status) # "ok"
             THEN Raise(db, done_gate(db, current, task_id, new_status))
        ELSE Ok(db3, task_id)

\* update_task up to its last check: the row it read (current) and "ok", or
\* the ValueError it raises.
update_task_read(db, task_id, updates) ==
    LET current == get_task(db, task_id)
    IN  [current |-> current,
         outcome |-> IF current = NoneDict THEN "NotFound"
                     ELSE done_gate(db, current, task_id, DictGet(updates, "status"))]

\* The writes of update_task done as one whole update_task on the store as it
\* is now: the row is read again and the DONE gate applied to it.
update_task_write_rechecked(db, current, task_id, actor, updates, now) ==
    update_task(db, task_id, actor, updates, now)

\* update_task from `# Update` on: the row as it is in the store now takes
\* the patch; the audit entry and the event are built from the row read
\* earlier (current).
update_task_write(db, current, task_id, actor, updates, now) ==
    LET old_status == current.status
        new_status == DictGet(updates, "status")
        upd == DictSet(updates, "updated_at", now)
        db1 == [db EXCEPT !.tasks =
                   [i \in DOMAIN @ |-> IF @[i].id = task_id
                                       THEN DictMerge(@[i], upd) ELSE @[i]]]
        db2 == _log_audit(db1, "TASK_UPDATED", "task", task_id, actor,
                          IF actor \in {"jarvis", "chief_of_staff", "ops_tracker",
                                        "distribution", "researcher", "system"}
                          THEN "agent" ELSE "human",
                          [k \in DOMAIN upd |-> current[k]], upd, NoneDict, now)
        db3 == IF status_changed(old_status, new_status)
               THEN _create_event(db2, "STATUS_CHANGED",
                                  status_changed_payload(task_id, old_status, new_status),
                                  now)
               ELSE db2
    IN  Ok(db3, task_id)

(***************************************************************************)
(* DELIVERABLES and INSIGHTS.                                              *)
(***************************************************************************)
\* workforce_deliverables.task_id is NOT NULL REFERENCES workforce_tasks(id):
\* the store refuses the insert for a task id that matches no task, the
\* exception leaves add_deliverable before its _log_audit call.
add_deliverable_logs_task(db, task_id, created_by, now) ==
    LET deliverable_id == uuid4(db)
        data == [id |-> deliverable_id, task_id |-> task_id,
                 created_by |-> created_by, created_at |-> now]
        db1 == [db EXCEPT !.ids = deliverable_id, !.deliverables = Append(@, data)]
        db2 == _log_audit(db1, "DELIVERABLE_ADDED", "task", task_id,
                          created_by, "agent",
                          NoneDict, [task_id |-> task_id], NoneDict, now)
    IN  IF get_task(db, task_id) = NoneDict THEN Raise(db, "StoreError")
        ELSE Ok(db2, deliverable_id)

add_deliverable(db, task_id, created_by, now) ==
    LET deliverable_id == uuid4(db)
        data == [id |-> deliverable_id, task_id |-> task_id,
                 created_by |-> created_by, created_at |-> now]
        db1 == [db EXCEPT !.ids = deliverable_id, !.deliverables = Append(@, data)]
        db2 == _log_audit(db1, "DELIVERABLE_ADDED", "deliverable", deliverable_id,
                          created_by, "agent",
                          NoneDict, [task_id |-> task_id], NoneDict, now)
    IN  IF get_task(db, task_id) = NoneDict THEN Raise(db, "StoreError")
        ELSE Ok(db2, deliverable_id)

\* workforce_insights.task_id REFERENCES workforce_tasks(id) and may be NULL.
add_insight(db, agent, task_id, now) ==
    LET insight_id == uuid4(db)
        data == [id |-> insight_id, task_id |-> task_id, agent |-> agent,
                 promoted_to_task_id |-> NoId, promoted_at |-> NoTime,
                 created_at |-> now]
        db1 == [db EXCEPT !.ids = insight_id, !.insights = Append(@, data)]
        db2 == _log_audit(db1, "INSIGHT_ADDED", "insight", insight_id, agent, "agent",
                          NoneDict, [task_id |-> task_id], NoneDict, now)
    IN  IF task_id # NoId /\ get_task(db, task_id) = NoneDict THEN Raise(db, "StoreError")
        ELSE Ok(db2, insight_id)

\* promote_insight_to_task that creates the task before it looks the insight up.
promote_insight_to_task_create_first(db, insight_id, promoted_by, now) ==
    LET insight == SelectSeq(db.insights, LAMBDA r : r.id = insight_id)
        task == create_task(db, Null, promoted_by, Absent, "insight_promotion", FALSE, now)
        db1 == [task.db EXCEPT !.insights =
                   [i \in DOMAIN @ |-> IF @[i].id = insight_id
                                       THEN [@[i] EXCEPT !.promoted_to_task_id = task.ret,
                                                         !.promoted_at = now]
                                       ELSE @[i]]]
    IN  IF insight = << >> THEN Raise(task.db, "NotFound")
        ELSE Ok(db1, task.ret)

promote_insight_to_task(db, insight_id, promoted_by, now) ==
    LET insight == SelectSeq(db.insights, LAMBDA r : r.id = insight_id)
        task == create_task(db, Null, promoted_by, Absent, "insight_promotion", FALSE, now)
        db1 == [task.db EXCEPT !.insights =
                   [i \in DOMAIN @ |-> IF @[i].id = insight_id
                                       THEN [@[i] EXCEPT !.promoted_to_task_id = task.ret,
                                                         !.promoted_at = now]
                                       ELSE @[i]]]
    IN  IF insight = << >> THEN Raise(db, "NotFound")
        ELSE Ok(db1, task.ret)

\* POST /insights/{insight_id}/promote
promote_insight(db, insight_id, actor, now) ==
    IF actor # Router THEN Raise(db, "Unauthorized")
    ELSE promote_insight_to_task(db, insight_id, actor, now)

(***************************************************************************)
(* APPROVAL.                                                               *)
(***************************************************************************)
\* approve_task that leaves the audit to update_task alone.
approve_task_update_only(db, task_id, approved_by, now) ==
    update_task(db, task_id, approved_by,
                [approved_by |-> approved_by, approved_at |-> now], now)

\* approve_task that writes its HUMAN_APPROVED entry whatever update_task did.
approve_task_log_always(db, task_id, approved_by, now) ==
    LET result == update_task(db, task_id, approved_by,
                              [approved_by |-> approved_by, approved_at |-> now], now)
        db1 == _log_audit(result.db, "HUMAN_APPROVED", "task", task_id, approved_by,
                          "human", NoneDict, [approved_at |-> now], NoneDict, now)
    IN  [db |-> db1, outcome |-> result.outcome, ret |-> result.ret]

\* approve_task that also completes the task.
approve_task_and_done(db, task_id, approved_by, now) ==
    LET result == update_task(db, task_id, approved_by,
                              [approved_by |-> approved_by, approved_at |-> now,
                               status |-> "DONE"], now)
        db1 == _log_audit(result.db, "HUMAN_APPROVED", "task", task_id, approved_by,
                          "human", NoneDict, [approved_at |-> now], NoneDict, now)
    IN  IF result.outcome # "ok" THEN result ELSE Ok(db1, result.ret)

approve_task(db, task_id, approved_by, now) ==
    LET result == update_task(db, task_id, approved_by,
                              [approved_by |-> approved_by, approved_at |-> now], now)
        db1 == _log_audit(result.db, "HUMAN_APPROVED", "task", task_id, approved_by,
                          "human", NoneDict, [approved_at |-> now], NoneDict, now)
    IN  IF result.outcome # "ok" THEN result ELSE Ok(db1, result.ret)

\* reject_task that sends the task back without clearing the approval.
reject_task_keeps_approval(db, task_id, rejected_by, reason, now) ==
    LET result == update_task(db, task_id, rejected_by, [status |-> "BACKLOG"], now)
        db1 == _log_audit(result.db, "HUMAN_REJECTED", "task", task_id, rejected_by,
                          "human", NoneDict, NoneDict, [reason |-> reason], now)
    IN  IF result.outcome # "ok" THEN result ELSE Ok(db1, result.ret)

\* reject_task that clears approved_by and leaves approved_at.
reject_task_keeps_approved_at(db, task_id, rejected_by, reason, now) ==
    LET result == update_task(db, task_id, rejected_by,
                              [status |-> "BACKLOG", approved_by |-> Null], now)
        db1 == _log_audit(result.db, "HUMAN_REJECTED", "task", task_id, rejected_by,
                          "human", NoneDict, NoneDict, [reason |-> reason], now)
    IN  IF result.outcome # "ok" THEN result ELSE Ok(db1, result.ret)

reject_task(db, task_id, rejected_by, reason, now) ==
    LET result == update_task(db, task_id, rejected_by,
                              [status |-> "BACKLOG", approved_by |-> Null,
                               approved_at |-> NoTime], now)
        db1 == _log_audit(result.db, "HUMAN_REJECTED", "task", task_id, rejected_by,
                          "human", NoneDict, NoneDict, [reason |-> reason], now)
    IN  IF result.outcome # "ok" THEN result ELSE Ok(db1, result.ret)

(***************************************************************************)
(* EVENTS: the poller's claim and its acknowledgement.                     *)
(***************************************************************************)
\* rows without its k-th row.
WithoutRow(rows, k) == SubSeq(rows, 1, k - 1) \o SubSeq(rows, k + 1, Len(rows))

RECURSIVE order_by_created_at_desc(_)
order_by_created_at_desc(rows) ==
    IF rows = << >> THEN << >>
    ELSE LET k == CHOOSE i \in DOMAIN rows : \A j \in DOMAIN rows :
                      \/ rows[i].created_at > rows[j].created_at
                      \/ rows[i].created_at = rows[j].created_at /\ i <= j
         IN  <<rows[k]>> \o order_by_created_at_desc(WithoutRow(rows, k))

\* order("created_at"): ascending; rows of the same created_at keep the
\* order in which they were inserted.
RECURSIVE order_by_created_at(_)
order_by_created_at(rows) ==
    IF rows = << >> THEN << >>
    ELSE LET k == CHOOSE i \in DOMAIN rows : \A j \in DOMAIN rows :
                      \/ rows[i].created_at < rows[j].created_at
                      \/ rows[i].created_at = rows[j].created_at /\ i <= j
         IN  <<rows[k]>> \o order_by_created_at(WithoutRow(rows, k))

\* limit(n): the first n rows.
first_rows(rows, n) == SubSeq(rows, 1, IF n < Len(rows) THEN n ELSE Len(rows))

get_unprocessed_events_marking(db, limit) ==
    LET unprocessed == SelectSeq(db.events, LAMBDA e : e.processed = FALSE)
        rows == first_rows(order_by_created_at(unprocessed), limit)
    IN  [db |-> [db EXCEPT !.events =
                    [i \in DOMAIN @ |-> IF \E k \in DOMAIN rows : rows[k].id = @[i].id
                                        THEN [@[i] EXCEPT !.processed = TRUE]
                                        ELSE @[i]]],
         outcome |-> "ok", rows |-> rows]

get_unprocessed_events(db, limit) ==
    LET unprocessed == SelectSeq(db.events, LAMBDA e : e.processed = FALSE)
    IN  [db |-> db, outcome |-> "ok",
         rows |-> first_rows(order_by_created_at(unprocessed), limit)]

mark_event_processed_all(db, event_id, processed_by, now) ==
    Ok([db EXCEPT !.events =
           [i \in DOMAIN @ |-> [@[i] EXCEPT !.processed = TRUE,
                                            !.processed_at = now,
                                            !.processed_by = processed_by]]],
       NoId)

mark_event_processed(db, event_id, processed_by, now) ==
    Ok([db EXCEPT !.events =
           [i \in DOMAIN @ |-> IF @[i].id = event_id
                               THEN [@[i] EXCEPT !.processed = TRUE,
                                                 !.processed_at = now,
                                                 !.processed_by = processed_by]
                               ELSE @[i]]],
       NoId)

(***************************************************************************)
(* TASKS: the list of GET /tasks.                                          *)
(***************************************************************************)
\* order("created_at", desc=True): newest first; rows of the same created_at
\* keep the order in which they were inserted.
RECURSIVE order_tasks_created_at_desc(_)
order_tasks_created_at_desc(rows) ==
    IF rows = << >> THEN << >>
    ELSE LET k == CHOOSE i \in DOMAIN rows : \A j \in DOMAIN rows :
                      \/ rows[i].created_at > rows[j].created_at
                      \/ rows[i].created_at = rows[j].created_at /\ i <= j
         IN  <<rows[k]>> \o order_tasks_created_at_desc(WithoutRow(rows, k))

\* get_tasks that lists the oldest tasks first.
get_tasks_oldest_first(db, status, owner_agent, priority, limit) ==
    LET rows == SelectSeq(db.tasks, LAMBDA t :
                    /\ Truthy(status) => t.status = status
                    /\ Truthy(owner_agent) => t.owner_agent = owner_agent
                    /\ Truthy(priority) => t.priority = priority)
    IN  [db |-> db, outcome |-> "ok",
         rows |-> first_rows(order_by_created_at(rows), limit)]

get_tasks(db, status, owner_agent, priority, limit) ==
    LET rows == SelectSeq(db.tasks, LAMBDA t :
                    /\ Truthy(status) => t.status = status
                    /\ Truthy(owner_agent) => t.owner_agent = owner_agent
                    /\ Truthy(priority) => t.priority = priority)
    IN  [db |-> db, outcome |-> "ok",
         rows |-> first_rows(order_tasks_created_at_desc(rows), limit)]

(***************************************************************************)
(* AUTONOMY: time-boxed grants and the resolver.  Timestamps count minutes *)
(* here, so that now + timedelta(minutes = d) is now + d.                  *)
(***************************************************************************)
AutonomyModes == {"advisory", "review_only", "full_autonomy"}
\* The bounds the request model puts on duration_minutes (ge, le).
MinDuration == 1
MaxDuration == 480

autonomy_grant_unbounded(mode, duration_minutes) ==
    mode \in AutonomyModes /\ duration_minutes >= MinDuration

\* AutonomyGrant: what the request model accepts.
autonomy_grant_valid(mode, duration_minutes) ==
    /\ mode \in AutonomyModes
    /\ duration_minutes >= MinDuration
    /\ duration_minutes <= MaxDuration

\* The time window of the query: lt(starts_at), gt(expires_at), revoked_at null.
session_active(s, now) ==
    /\ s.starts_at < now
    /\ s.expires_at > now
    /\ s.revoked_at = NoTime

session_in_scope_any(s, agent_id) ==
    TRUE

\* The scope filter, added to the query only for a truthy agent_id.
session_in_scope(s, agent_id) ==
    IF Truthy(agent_id)
    THEN s.granted_to = agent_id \/ s.granted_to = Null
    ELSE TRUE

\* The rows the query selects before ordering.
autonomy_query(db, agent_id, now) ==
    SelectSeq(db.sessions, LAMBDA s : session_active(s, now) /\ session_in_scope(s, agent_id))

\* order(created_at, desc).limit(1): the row the store may return; rows with
\* the same created_at come in no defined order, so any of the latest may.
autonomy_first(db, agent_id, now) ==
    LET m == autonomy_query(db, agent_id, now)
    IN  {m[i] : i \in {k \in DOMAIN m : \A j \in DOMAIN m : m[j].created_at <= m[k].created_at}}

\* The possible responses of the resolver: the store it leaves and the mode.
get_current_autonomy_mode(db, agent_id, now) ==
    LET first == autonomy_first(db, agent_id, now)
    IN  IF first # {}
        THEN {[db |-> db, outcome |-> "ok", mode |-> r.mode] : r \in first}
        ELSE {[db |-> db, outcome |-> "ok", mode |-> "advisory"]}

grant_autonomy_unaudited(db, mode, granted_by, duration_minutes, granted_to, now) ==
    LET id == uuid4(db)
    IN  Ok([db EXCEPT !.ids = id,
                      !.sessions = Append(@, [id |-> id, mode |-> mode,
                                              granted_by |-> granted_by,
                                              granted_to |-> granted_to,
                                              starts_at |-> now,
                                              expires_at |-> now + duration_minutes,
                                              revoked_at |-> NoTime,
                                              created_at |-> now])], id)

grant_autonomy(db, mode, granted_by, duration_minutes, granted_to, now) ==
    LET expires == now + duration_minutes
        data == [id |-> uuid4(db),
                 mode |-> mode,
                 granted_by |-> granted_by,
                 granted_to |-> granted_to,
                 starts_at |-> now,
                 expires_at |-> expires,
                 revoked_at |-> NoTime,
                 created_at |-> now]
        db1 == [db EXCEPT !.ids = data.id, !.sessions = Append(@, data)]
        db2 == _log_audit(db1, "AUTONOMY_MODE_CHANGED", "autonomy", data.id, granted_by,
                          "human", NoneDict,
                          [mode |-> mode, duration_minutes |-> duration_minutes],
                          NoneDict, now)
    IN  Ok(db2, data.id)

\* POST /autonomy: the request model validates, then the grant is stored.
grant_autonomy_route(db, mode, actor, duration_minutes, granted_to, now) ==
    IF autonomy_grant_valid(mode, duration_minutes)
    THEN grant_autonomy(db, mode, actor, duration_minutes, granted_to, now)
    ELSE Raise(db, "ValidationFailed")

(***************************************************************************)
(* The specification: any sequence of non-overlapping intake operations.   *)
(***************************************************************************)
NoUpdates == EmptyDict

Init ==
    /\ tasks = << >>
    /\ deliverables = << >>
    /\ insights = << >>
    /\ audit = << >>
    /\ events = << >>
    /\ sessions = << >>
    /\ ids = 0
    /\ clock = 1
    /\ last = [op |-> "init", actor |-> Null, target |-> NoId, body |-> NoUpdates,
               outcome |-> "ok", ret |-> NoId]
    /\ answer = NoAnswer
    /\ claimed = [c \in Pollers |-> << >>]
    /\ delivered = {}
    /\ acked = {}
    /\ listed = << >>
    /\ inflight = [a \in Updaters |-> NoRequest]

\* One whole operation: the store becomes the result's store, and the wall
\* clock has moved on before the next request.  last is the request as the
\* caller made it (operation, X-Actor, the id in the path, the body) and the
\* response (outcome, the id of the row returned).
DoStore(op, actor, target, body, r) ==
    /\ tasks' = r.db.tasks
    /\ deliverables' = r.db.deliverables
    /\ insights' = r.db.insights
    /\ audit' = r.db.audit
    /\ events' = r.db.events
    /\ sessions' = r.db.sessions
    /\ ids' = r.db.ids
    /\ clock' = clock + 1
    /\ last' = [op |-> op, actor |-> actor, target |-> target, body |-> body,
                outcome |-> r.outcome, ret |-> r.ret]

Do(op, actor, target, body, r) ==
    /\ clock <= MaxOps
    /\ DoStore(op, actor, target, body, r)
    /\ UNCHANGED caller_vars

\* The task ids a request can name: every stored task, and one that matches none.
TaskIdInputs == {tasks[i].id : i \in DOMAIN tasks} \cup {uuid4(Store)}

InsightIdInputs == {insights[i].id : i \in DOMAIN insights} \cup {uuid4(Store)}
EventIdInputs == {events[i].id : i \in DOMAIN events}

Patches ==
    {DictMerge(a, b) :
        a \in {NoUpdates} \cup {[status |-> s] : s \in StatusInputs},
        b \in {NoUpdates} \cup {[requires_approval |-> x] : x \in ApprovalInputs}}

\* The body of POST /tasks: the fields the caller supplied.
TaskCreate(owner_agent, priority, requires_approval) ==
    LET given == [owner_agent |-> owner_agent, requires_approval |-> requires_approval]
    IN  IF priority = Absent THEN given ELSE DictSet(given, "priority", priority)

CreateTask ==
    \E actor \in Humans, p \in PriorityInputs, ra \in BOOLEAN, o \in OwnerInputs :
        /\ Len(tasks) < MaxTasks
        /\ Do("create_task", actor, NoId, TaskCreate(o, p, ra),
              create_task(Store, o, actor, p, "api", ra, clock))

UpdateTask ==
    \E t \in TaskIdInputs, actor \in Humans, u \in Patches :
        Do("update_task", actor, t, u, update_task(Store, t, actor, u, clock))

ApproveTask ==
    \E t \in TaskIdInputs, actor \in Humans :
        Do("approve_task", actor, t, NoUpdates, approve_task(Store, t, actor, clock))

RejectTask ==
    \E t \in TaskIdInputs, actor \in Humans, reason \in ReasonInputs :
        Do("reject_task", actor, t, [reason |-> reason], reject_task(Store, t, actor, reason, clock))

AddDeliverable ==
    \E t \in TaskIdInputs, actor \in Agents :
        Do("add_deliverable", actor, t, NoUpdates, add_deliverable(Store, t, actor, clock))

AddInsight ==
    \E t \in TaskIdInputs \cup {NoId}, actor \in Agents :
        /\ Len(insights) < MaxInsights
        /\ Do("add_insight", actor, t, NoUpdates, add_insight(Store, actor, t, clock))

PromoteInsight ==
    \E i \in InsightIdInputs, actor \in {Router} \cup Humans :
        /\ Len(tasks) < MaxTasks
        /\ Do("promote_insight", actor, i, NoUpdates, promote_insight(Store, i, actor, clock))

MarkEventProcessed ==
    \E e \in EventIdInputs, consumer \in Consumers :
        Do("mark_event_processed", consumer, e, NoUpdates,
           mark_event_processed(Store, e, consumer, clock))

Next ==
    \/ CreateTask
    \/ UpdateTask
    \/ ApproveTask
    \/ RejectTask
    \/ AddDeliverable
    \/ AddInsight
    \/ PromoteInsight
    \/ MarkEventProcessed

Spec == Init /\ [][Next]_vars

(***************************************************************************)
(* Readings of the store and of a step, used by the properties below.      *)
(* A step is the pair of states around one operation: unprimed is the      *)
(* store the operation found, last' is the request and its response.       *)
(***************************************************************************)
TaskIds == {tasks[i].id : i \in DOMAIN tasks}
Task(t) == get_task(Store, t)
Deliverables(t) == get_deliverables(Store, t)
Approved(t) == Task(t).approved_by # Null

\* The step is a request op on the task (insight, event) with id t.
Step(op, t) == last'.op = op /\ last'.target = t
\* The step is an UpdateTask on task t whose patch sets status to DONE.
StepToDone(t) == Step("update_task", t) /\ DictGet(last'.body, "status") = "DONE"
StepOk == last'.outcome = "ok"
StoreUnchanged == UNCHANGED store_vars

\* The audit entries and events the step wrote.
NewAudit == SubSeq(audit', Len(audit) + 1, Len(audit'))
NewEvents == SubSeq(events', Len(events) + 1, Len(events'))
OfType(rows, event_type) == SelectSeq(rows, LAMBDA r : r.event_type = event_type)

(***************************************************************************)
(* C1 as stated: a task with no deliverable and status other than DONE     *)
(* cannot be moved to DONE (PreconditionFailed), and right after           *)
(* add_deliverable has attached one deliverable to it the same UpdateTask  *)
(* succeeds and the status becomes DONE.                                   *)
(***************************************************************************)
C1_DoneAfterDeliverable ==
    [][\A t \in TaskIds :
          /\ (StepToDone(t) /\ Deliverables(t) = << >> /\ Task(t).status # "DONE")
                => last'.outcome = "PreconditionFailed"
          /\ (StepToDone(t) /\ last.op = "add_deliverable" /\ last.outcome = "ok"
                /\ last.target = t /\ Len(Deliverables(t)) = 1 /\ Task(t).status # "DONE")
                => (StepOk /\ Task(t)'.status = "DONE")]_vars

(***************************************************************************)
(* C1 amended: a task with no deliverable and status other than DONE       *)
(* cannot be moved to DONE (PreconditionFailed, nothing written); once it  *)
(* has a deliverable the same UpdateTask succeeds and the status becomes   *)
(* DONE provided the task does not require approval or is approved, and    *)
(* otherwise still fails with PreconditionFailed.                          *)
(***************************************************************************)
C1_DeliverableGate ==
    [][\A t \in TaskIds :
          /\ (StepToDone(t) /\ Deliverables(t) = << >> /\ Task(t).status # "DONE")
                => (last'.outcome = "PreconditionFailed" /\ StoreUnchanged)
          /\ (StepToDone(t) /\ Deliverables(t) # << >> /\ Task(t).status # "DONE")
                => IF Task(t).requires_approval /\ ~Approved(t)
                   THEN last'.outcome = "PreconditionFailed" /\ StoreUnchanged
                   ELSE StepOk /\ Task(t)'.status = "DONE"]_vars

\* A task was moved to DONE by the request that followed its first deliverable.
C1_Witness ==
    /\ last.op = "update_task" /\ last.outcome = "ok"
    /\ DictGet(last.body, "status") = "DONE"
    /\ Task(last.target).status = "DONE"
    /\ Len(Deliverables(last.target)) = 1
    /\ audit[Len(audit) - 1].event_type = "DELIVERABLE_ADDED"

(***************************************************************************)
(* C2: a task that requires approval and has no approver cannot be moved   *)
(* to DONE even with a deliverable (PreconditionFailed); ApproveTask on it *)
(* succeeds, and after it the same UpdateTask succeeds.                    *)
(***************************************************************************)
C2_ApprovalGate ==
    [][\A t \in TaskIds :
          /\ (StepToDone(t) /\ Task(t).requires_approval /\ ~Approved(t)
                /\ Task(t).status # "DONE")
                => (last'.outcome = "PreconditionFailed" /\ StoreUnchanged)
          /\ Step("approve_task", t)
                => (StepOk /\ Task(t)'.approved_by = last'.actor)
          /\ (StepToDone(t) /\ last.op = "approve_task" /\ last.outcome = "ok"
                /\ last.target = t /\ Task(t).requires_approval
                /\ Deliverables(t) # << >> /\ Task(t).status # "DONE")
                => (StepOk /\ Task(t)'.status = "DONE")]_vars

\* A task that requires approval was moved to DONE right after its approval.
C2_Witness ==
    /\ last.op = "update_task" /\ last.outcome = "ok"
    /\ DictGet(last.body, "status") = "DONE"
    /\ Task(last.target).status = "DONE"
    /\ Task(last.target).requires_approval
    /\ Approved(last.target)
    /\ audit[Len(audit) - 1].event_type = "HUMAN_APPROVED"

(***************************************************************************)
(* C3: in every reachable state, every task whose status is DONE has at    *)
(* least one deliverable.                                                  *)
(***************************************************************************)
C3_DoneHasDeliverable ==
    \A t \in TaskIds : Task(t).status = "DONE" => Deliverables(t) # << >>

C3_Witness ==
    \E t \in TaskIds : Task(t).status = "DONE" /\ Deliverables(t) # << >>

(***************************************************************************)
(* C4 as stated: in every reachable state, every task whose status is DONE *)
(* and whose requires_approval is true has approved_by set, whatever the   *)
(* patches the callers sent.                                               *)
(***************************************************************************)
C4_DoneApproved ==
    \A t \in TaskIds :
        (Task(t).status = "DONE" /\ Task(t).requires_approval) => Approved(t)

(***************************************************************************)
(* C5 as stated: every successful CreateTask, UpdateTask, ApproveTask,     *)
(* RejectTask, deliverable-add and insight-add appends exactly one new     *)
(* AuditEntry, whose entity_id is the id of the entity it mutated.         *)
(***************************************************************************)
\* The entity a request mutates: the row it created, or the task it names.
MutatedEntity ==
    IF last'.op \in {"create_task", "add_deliverable", "add_insight"}
    THEN last'.ret ELSE last'.target

C5_OneAuditEntry ==
    [][(StepOk /\ last'.op \in {"create_task", "update_task", "approve_task",
                                "reject_task", "add_deliverable", "add_insight"})
          => /\ Len(NewAudit) = 1
             /\ NewAudit[1].entity_id = MutatedEntity]_vars

(***************************************************************************)
(* C5 amended: every successful CreateTask, UpdateTask, deliverable-add    *)
(* and insight-add appends exactly one new AuditEntry; every successful    *)
(* ApproveTask and RejectTask appends exactly two (TASK_UPDATED, then      *)
(* HUMAN_APPROVED or HUMAN_REJECTED); the entity_id of every such entry is *)
(* the id of the entity the operation mutated.                             *)
(***************************************************************************)
C5_AuditEntries ==
    [][/\ (StepOk /\ last'.op \in {"create_task", "update_task",
                                   "add_deliverable", "add_insight"})
             => /\ Len(NewAudit) = 1
                /\ NewAudit[1].entity_id = MutatedEntity
       /\ (StepOk /\ last'.op \in {"approve_task", "reject_task"})
             => /\ Len(NewAudit) = 2
                /\ NewAudit[1].event_type = "TASK_UPDATED"
                /\ NewAudit[2].event_type = IF last'.op = "approve_task"
                                            THEN "HUMAN_APPROVED" ELSE "HUMAN_REJECTED"
                /\ NewAudit[1].entity_id = MutatedEntity
                /\ NewAudit[2].entity_id = MutatedEntity]_vars

\* An approval has written its two entries for the task.
C5_Witness ==
    /\ last.op = "approve_task" /\ last.outcome = "ok"
    /\ Len(audit) >= 3
    /\ audit[Len(audit)].event_type = "HUMAN_APPROVED"
    /\ audit[Len(audit)].entity_id = last.target
    /\ audit[Len(audit) - 1].event_type = "TASK_UPDATED"
    /\ audit[Len(audit) - 1].entity_id = last.target

(***************************************************************************)
(* C6 as stated: every operation that changes stored rows appends at least *)
(* one AuditEntry for each entity it changed before it returns success     *)
(* (the rows it added to or changed in tasks, deliverables and insights,   *)
(* and the events it changed).                                             *)
(***************************************************************************)
ChangedRows(old, new) ==
    {new[i].id : i \in {j \in DOMAIN new : j > Len(old) \/ new[j] # old[j]}}

MutatedEntities ==
    ChangedRows(tasks, tasks') \cup ChangedRows(deliverables, deliverables')
        \cup ChangedRows(insights, insights')
        \cup ChangedRows(events, SubSeq(events', 1, Len(events)))

C6_EveryMutationAudited ==
    [][StepOk => \A e \in MutatedEntities :
                    \E j \in DOMAIN NewAudit : NewAudit[j].entity_id = e]_vars

(***************************************************************************)
(* C7: the audit log is append-only: every step leaves every entry already *)
(* in the log in place with the same field values; the log only grows.     *)
(***************************************************************************)
C7_AuditAppendOnly ==
    [][/\ Len(audit') >= Len(audit)
       /\ SubSeq(audit', 1, Len(audit)) = audit]_vars

\* A rejection has appended to a log that already held entries.
C7_Witness ==
    /\ last.op = "reject_task" /\ last.outcome = "ok"
    /\ Len(audit) >= 4
    /\ audit[1].event_type = "TASK_CREATED"
    /\ audit[Len(audit)].event_type = "HUMAN_REJECTED"

(***************************************************************************)
(* C8: an UpdateTask (RejectTask's included) that changes a task's status  *)
(* from old to new, old # new, creates exactly one new Event: of type      *)
(* STATUS_CHANGED, unprocessed, with payload {task_id, old_status = old,   *)
(* new_status = new}.                                                      *)
(***************************************************************************)
StatusChangedEvent(t, old, new) ==
    /\ Len(NewEvents) = 1
    /\ SubSeq(events', 1, Len(events)) = events
    /\ NewEvents[1].event_type = "STATUS_CHANGED"
    /\ NewEvents[1].processed = FALSE
    /\ NewEvents[1].payload = [task_id |-> t, old_status |-> old, new_status |-> new]

C8_StatusChangeEvent ==
    [][\A t \in TaskIds :
          /\ (Step("update_task", t) /\ StepOk /\ "status" \in DOMAIN last'.body
                /\ last'.body.status # Task(t).status)
                => StatusChangedEvent(t, Task(t).status, last'.body.status)
          /\ (Step("reject_task", t) /\ StepOk /\ Task(t).status # "BACKLOG")
                => StatusChangedEvent(t, Task(t).status, "BACKLOG")]_vars

\* BACKLOG to IN_PROGRESS has left its event.
C8_Witness ==
    /\ last.op = "update_task" /\ last.outcome = "ok"
    /\ events # << >>
    /\ events[Len(events)].event_type = "STATUS_CHANGED"
    /\ events[Len(events)].processed = FALSE
    /\ events[Len(events)].payload =
          [task_id |-> last.target, old_status |-> "BACKLOG", new_status |-> "IN_PROGRESS"]
    /\ events[Len(events)].id = ids

(***************************************************************************)
(* C9: an UpdateTask whose patch has no status, or whose status is the     *)
(* task's current status, creates no STATUS_CHANGED Event (no Event at     *)
(* all); nor does ApproveTask, nor RejectTask on a task already in         *)
(* BACKLOG.                                                                *)
(***************************************************************************)
C9_NoEventWithoutChange ==
    [][\A t \in TaskIds :
          (StepOk /\ \/ Step("update_task", t) /\ "status" \notin DOMAIN last'.body
                     \/ Step("update_task", t) /\ DictGet(last'.body, "status") = Task(t).status
                     \/ Step("approve_task", t)
                     \/ Step("reject_task", t) /\ Task(t).status = "BACKLOG")
             => /\ OfType(NewEvents, "STATUS_CHANGED") = << >>
                /\ events' = events]_vars

\* A patch naming the status the task already had was applied: the audit
\* entry shows the old status, and no event is younger than that entry.
C9_Witness ==
    /\ last.op = "update_task" /\ last.outcome = "ok"
    /\ DictGet(last.body, "status") = "IN_PROGRESS"
    /\ audit[Len(audit)].event_type = "TASK_UPDATED"
    /\ audit[Len(audit)].old_value.status = "IN_PROGRESS"
    /\ audit[Len(audit)].id = ids

(***************************************************************************)
(* C10: every successful CreateTask (the one inside a promotion included)  *)
(* adds one task with an id no stored row carries, status BACKLOG and      *)
(* priority P2 when none was supplied, exactly one TASK_CREATED AuditEntry *)
(* for that task id, and exactly one unprocessed TASK_CREATED Event whose  *)
(* payload carries that task_id, the owner_agent and the priority.         *)
(***************************************************************************)
RowIds(rows) == {rows[i].id : i \in DOMAIN rows}
AllIds == RowIds(tasks) \cup RowIds(deliverables) \cup RowIds(insights)
             \cup RowIds(audit) \cup RowIds(events)

TaskCreated(id, owner_agent, priority) ==
    /\ Len(tasks') = Len(tasks) + 1
    /\ SubSeq(tasks', 1, Len(tasks)) = tasks
    /\ tasks'[Len(tasks')].id = id
    /\ id \notin AllIds
    /\ tasks'[Len(tasks')].status = "BACKLOG"
    /\ tasks'[Len(tasks')].priority = priority
    /\ tasks'[Len(tasks')].owner_agent = owner_agent
    /\ Len(NewAudit) = 1
    /\ NewAudit[1].event_type = "TASK_CREATED"
    /\ NewAudit[1].entity_type = "task"
    /\ NewAudit[1].entity_id = id
    /\ Len(NewEvents) = 1
    /\ SubSeq(events', 1, Len(events)) = events
    /\ NewEvents[1].event_type = "TASK_CREATED"
    /\ NewEvents[1].processed = FALSE
    /\ NewEvents[1].payload =
          [task_id |-> id, owner_agent |-> owner_agent, priority |-> priority]

C10_CreateTask ==
    [][/\ (last'.op = "create_task" /\ StepOk)
             => TaskCreated(last'.ret, last'.body.owner_agent,
                            IF "priority" \in DOMAIN last'.body
                            THEN last'.body.priority ELSE "P2")
       /\ (last'.op = "promote_insight" /\ StepOk)
             => TaskCreated(last'.ret, Null, "P2")]_vars

\* A second task was created without a priority.
C10_Witness ==
    /\ last.op = "create_task" /\ last.outcome = "ok"
    /\ "priority" \notin DOMAIN last.body
    /\ Len(tasks) = 2
    /\ Task(last.ret).priority = "P2"
    /\ Task(last.ret).status = "BACKLOG"
    /\ events[Len(events)].payload.task_id = last.ret


(***************************************************************************)
(* The autonomy specification: humans grant time-boxed sessions, callers   *)
(* ask the resolver, and the wall clock (in minutes) advances between      *)
(* requests.  Two requests may read the same instant.  It starts from the  *)
(* store as one create_task leaves it.                                     *)
(***************************************************************************)
MaxSessions == 2
MaxTicks == 3
TickInputs == {30, 31}
ModeInputs == {"advisory", "full_autonomy"}
DurationInputs == {60}
GrantedToInputs == {Null, "researcher"}
\* The grant requests: one-hour grants of every mode and scope, the longest
\* and the shortest accepted grant, and requests just outside the accepted
\* durations and modes.
GrantInputs ==
    [mode : ModeInputs, duration_minutes : DurationInputs, granted_to : GrantedToInputs]
    \cup {[mode |-> "full_autonomy", duration_minutes |-> d, granted_to |-> Null] :
             d \in {MinDuration - 1, MinDuration, MaxDuration, MaxDuration + 1}}
    \cup {[mode |-> "root", duration_minutes |-> 60, granted_to |-> Null]}
AgentIdInputs == {Null, "researcher", "ops_tracker"}

InitAutonomy ==
    LET r == create_task([tasks |-> << >>, deliverables |-> << >>, insights |-> << >>,
                          audit |-> << >>, events |-> << >>, sessions |-> << >>, ids |-> 0],
                         "researcher", "alice", Absent, "api", FALSE, 1)
    IN  /\ tasks = r.db.tasks
        /\ deliverables = r.db.deliverables
        /\ insights = r.db.insights
        /\ audit = r.db.audit
        /\ events = r.db.events
        /\ sessions = r.db.sessions
        /\ ids = r.db.ids
        /\ clock = 2
        /\ last = [op |-> "create_task", actor |-> "alice", target |-> NoId,
                   body |-> NoUpdates, outcome |-> r.outcome, ret |-> r.ret]
        /\ answer = NoAnswer
        /\ claimed = [c \in Pollers |-> << >>]
        /\ delivered = {}
        /\ acked = {}
        /\ listed = << >>
        /\ inflight = [a \in Updaters |-> NoRequest]

\* One whole request served within the current minute.
DoNow(op, actor, body, db, outcome, ret) ==
    /\ tasks' = db.tasks
    /\ deliverables' = db.deliverables
    /\ insights' = db.insights
    /\ audit' = db.audit
    /\ events' = db.events
    /\ sessions' = db.sessions
    /\ ids' = db.ids
    /\ last' = [op |-> op, actor |-> actor, target |-> NoId, body |-> body,
                outcome |-> outcome, ret |-> ret]
    /\ UNCHANGED <<clock, poll_vars, client_vars>>

GrantAutonomy ==
    \E g \in GrantInputs, actor \in Humans :
        LET r == grant_autonomy_route(Store, g.mode, actor, g.duration_minutes,
                                      g.granted_to, clock)
        IN  /\ Len(sessions) < MaxSessions
            /\ DoNow("grant_autonomy", actor, g, r.db, r.outcome, r.ret)
            /\ answer' = NoAnswer

CurrentMode ==
    \E a \in AgentIdInputs :
        \E r \in get_current_autonomy_mode(Store, a, clock) :
            /\ DoNow("get_current_autonomy_mode", Null, [agent_id |-> a],
                     r.db, r.outcome, NoId)
            /\ answer' = [agent_id |-> a, now |-> clock, mode |-> r.mode]

Tick ==
    \E d \in TickInputs :
        /\ clock + d <= 2 + 31 * MaxTicks
        /\ clock' = clock + d
        /\ UNCHANGED <<store_vars, last, caller_vars>>

NextAutonomy ==
    \/ GrantAutonomy
    \/ CurrentMode
    \/ Tick

SpecAutonomy == InitAutonomy /\ [][NextAutonomy]_vars

(***************************************************************************)
(* Readings of the sessions table and of the resolver's answer.  While the *)
(* last request is a resolver request, the sessions are the ones it found  *)
(* and answer.now is the minute it read.                                   *)
(***************************************************************************)
Sessions == {sessions[i] : i \in DOMAIN sessions}
\* The last request asked the resolver about agent a (Null: no agent_id).
Asked(a) == last.op = "get_current_autonomy_mode" /\ answer.agent_id = a
\* Active as the data model has it: starts_at <= now < expires_at, not revoked.
ActiveAt(s, now) == s.starts_at <= now /\ now < s.expires_at /\ s.revoked_at = NoTime
\* Matching: global, or scoped to the agent asked about.
Matches(s, a) == s.granted_to = Null \/ (a # Null /\ s.granted_to = a)
Latest(S) == {s \in S : \A o \in S : o.created_at <= s.created_at}
\* The store without the sessions scoped to an agent other than a.
WithoutOtherScopes(a) ==
    [Store EXCEPT !.sessions = SelectSeq(@, LAMBDA s : s.granted_to = Null \/ s.granted_to = a)]
\* The modes the resolver can answer from store db.
Modes(db, a, now) == {r.mode : r \in get_current_autonomy_mode(db, a, now)}

(***************************************************************************)
(* C11 as stated: CurrentMode(agentId) returns the mode of the matching    *)
(* active session with the latest created_at, whatever its scope: whenever *)
(* some session is active (starts_at <= now < expires_at, not revoked) and *)
(* is global or scoped to the agent asked about, the answer is the mode of *)
(* such a session with the latest created_at.                              *)
(***************************************************************************)
C11_LatestWins ==
    \A a \in AgentIdInputs \ {Null} :
        Asked(a) =>
            LET M == {s \in Sessions : Matches(s, a) /\ ActiveAt(s, answer.now)}
            IN  M # {} => answer.mode \in {s.mode : s \in Latest(M)}

(***************************************************************************)
(* C12: a session scoped to agent A never determines CurrentMode(B) for a  *)
(* different agent B: the answer for B is one the resolver gives from the  *)
(* global sessions and the sessions scoped to B alone.                     *)
(***************************************************************************)
C12_ScopedToOther ==
    \A b \in AgentIdInputs \ {Null} :
        Asked(b) => answer.mode \in Modes(WithoutOtherScopes(b), b, answer.now)

\* ops_tracker asked while a later full_autonomy session scoped to researcher
\* was in its window, and was answered advisory.
C12_Witness ==
    /\ Asked("ops_tracker")
    /\ answer.mode = "advisory"
    /\ \E s \in Sessions :
          /\ s.granted_to = "researcher"
          /\ s.mode = "full_autonomy"
          /\ s.starts_at < answer.now /\ answer.now < s.expires_at

(***************************************************************************)
(* C13 as stated: when CurrentMode is called without an agentId only       *)
(* global sessions can match: the answer is one the resolver gives from    *)
(* the global sessions alone, so an active session scoped to an agent does *)
(* not affect it.                                                          *)
(***************************************************************************)
C13_NoAgentGlobalOnly ==
    Asked(Null) => answer.mode \in Modes(WithoutOtherScopes(Null), Null, answer.now)

(***************************************************************************)
(* C14 as stated: a session is eligible to be returned exactly when        *)
(* starts_at <= now < expires_at and revoked_at is unset: the answer is    *)
(* the mode of a latest session among those in that window (and in the     *)
(* scope the resolver applies), and the default when there is none; so a   *)
(* session matches at now = starts_at and not at now = expires_at.         *)
(***************************************************************************)
C14_ActiveWindow ==
    \A a \in AgentIdInputs :
        Asked(a) =>
            LET M == {s \in Sessions : session_in_scope(s, a) /\ ActiveAt(s, answer.now)}
            IN  /\ M # {} => answer.mode \in {s.mode : s \in Latest(M)}
                /\ M = {} => answer.mode = "advisory"

(***************************************************************************)
(* C15 as stated: with a single session, granted as full_autonomy for 60   *)
(* minutes at T0, CurrentMode() is full_autonomy at T0+30 and advisory at  *)
(* T0+61; and whenever no session matches (none is both active and global  *)
(* or scoped to the agent asked about), CurrentMode returns advisory.      *)
(***************************************************************************)
C15_ExpiryAndDefault ==
    /\ Asked(Null) /\ Len(sessions) = 1 /\ sessions[1].granted_to = Null
       /\ sessions[1].mode = "full_autonomy"
       /\ sessions[1].expires_at = sessions[1].starts_at + 60
       => /\ answer.now = sessions[1].starts_at + 30 => answer.mode = "full_autonomy"
          /\ answer.now = sessions[1].starts_at + 61 => answer.mode = "advisory"
    /\ \A a \in AgentIdInputs :
          (Asked(a) /\ ~ (\E s \in Sessions : Matches(s, a) /\ ActiveAt(s, answer.now)))
              => answer.mode = "advisory"


(***************************************************************************)
(* C16: every session created through the grant route has starts_at <      *)
(* expires_at, expires_at = starts_at + the duration_minutes of its grant  *)
(* (as its AUTONOMY_MODE_CHANGED entry records it), and expires_at -       *)
(* starts_at at most 480 minutes.                                          *)
(***************************************************************************)
C16_SessionWindow ==
    \A s \in Sessions :
        /\ s.starts_at < s.expires_at
        /\ s.expires_at - s.starts_at <= MaxDuration
        /\ \E i \in DOMAIN audit :
              /\ audit[i].event_type = "AUTONOMY_MODE_CHANGED"
              /\ audit[i].entity_id = s.id
              /\ s.expires_at = s.starts_at + audit[i].new_value.duration_minutes

\* A grant of the longest accepted duration is stored, and the last request,
\* for one minute more, was refused.
C16_Witness ==
    /\ \E s \in Sessions : s.expires_at - s.starts_at = MaxDuration
    /\ Len(sessions) = 1
    /\ last.op = "grant_autonomy"
    /\ last.body.duration_minutes = MaxDuration + 1
    /\ last.outcome = "ValidationFailed"

(***************************************************************************)
(* C17: CurrentMode performs no writes and leaves every table unchanged;   *)
(* among the autonomy operations only a successful Grant changes the       *)
(* store, adding exactly one session and exactly one AUTONOMY_MODE_CHANGED *)
(* AuditEntry (for that session) and nothing else; a refused Grant writes  *)
(* nothing.                                                                *)
(***************************************************************************)
C17_OnlyGrantWrites ==
    [][clock' = clock =>
         /\ last'.op = "get_current_autonomy_mode" => UNCHANGED store_vars
         /\ (last'.op = "grant_autonomy" /\ last'.outcome # "ok") => UNCHANGED store_vars
         /\ (last'.op = "grant_autonomy" /\ last'.outcome = "ok") =>
               /\ Len(sessions') = Len(sessions) + 1
               /\ SubSeq(sessions', 1, Len(sessions)) = sessions
               /\ sessions'[Len(sessions')].id = last'.ret
               /\ SubSeq(audit', 1, Len(audit)) = audit
               /\ Len(NewAudit) = 1
               /\ NewAudit[1].event_type = "AUTONOMY_MODE_CHANGED"
               /\ NewAudit[1].entity_id = last'.ret
               /\ UNCHANGED <<tasks, deliverables, insights, events>>]_vars

\* The resolver has answered from a store holding a task, its event, one
\* granted session and that grant's audit entry.
C17_Witness ==
    /\ last.op = "get_current_autonomy_mode"
    /\ answer.mode = "full_autonomy"
    /\ Len(tasks) = 1 /\ Len(events) = 1
    /\ Len(sessions) = 1
    /\ Len(audit) = 2
    /\ audit[2].event_type = "AUTONOMY_MODE_CHANGED"
    /\ audit[2].entity_id = sessions[1].id


(***************************************************************************)
(* The event specification: tasks are created and updated, which emits     *)
(* events, and the pollers claim batches of unprocessed events and         *)
(* acknowledge events of the batch they hold.  A poller that claims again  *)
(* has dropped the batch it held (a crash and restart, or the next poll).  *)
(***************************************************************************)
MaxPolls == 5
\* One event, and the default of the events route.
LimitInputs == {1, 100}

ClaimEvents ==
    \E c \in Pollers, limit \in LimitInputs :
        LET r == get_unprocessed_events(Store, limit)
        IN  /\ clock <= MaxPolls
            /\ DoStore("get_unprocessed_events", c, NoId, [limit |-> limit],
                       [db |-> r.db, outcome |-> r.outcome, ret |-> NoId])
            /\ claimed' = [claimed EXCEPT ![c] = r.rows]
            /\ delivered' = delivered \cup {r.rows[i].id : i \in DOMAIN r.rows}
            /\ UNCHANGED <<answer, acked, client_vars>>

AckEvent ==
    \E c \in Pollers :
        \E i \in DOMAIN claimed[c] :
            LET e == claimed[c][i].id
            IN  /\ clock <= MaxPolls
                /\ DoStore("mark_event_processed", c, e, NoUpdates,
                           mark_event_processed(Store, e, c, clock))
                /\ acked' = acked \cup {<<c, e>>}
                /\ UNCHANGED <<answer, claimed, delivered, client_vars>>

NextEvents ==
    \/ CreateTask
    \/ UpdateTask
    \/ ClaimEvents
    \/ AckEvent

SpecEvents == Init /\ [][NextEvents]_vars


(***************************************************************************)
(* Readings of the events table and of the pollers.  While the last        *)
(* request is a claim, the events are the ones it found and the batch of   *)
(* the poller that made it is what it returned.                            *)
(***************************************************************************)
Unprocessed == {events[i] : i \in {k \in DOMAIN events : ~ events[k].processed}}
Batch(c) == {claimed[c][k] : k \in DOMAIN claimed[c]}
Claimed == last.op = "get_unprocessed_events"
\* The unprocessed events that are not newer than e.
NotNewer(e) == {u \in Unprocessed : u.created_at <= e.created_at}

(***************************************************************************)
(* C18: Claim(limit) returns only events whose processed is false, at most *)
(* limit of them (all of them when there are fewer), in ascending          *)
(* created_at order, and they are the oldest unprocessed ones: no          *)
(* unprocessed event left out is older than a returned one.                *)
(***************************************************************************)
C18_ClaimOldestUnprocessed ==
    Claimed =>
        LET b == claimed[last.actor]
            limit == last.body.limit
        IN  /\ \A k \in DOMAIN b : b[k] \in Unprocessed
            /\ Len(b) <= limit
            /\ Len(b) = limit \/ Len(b) = Cardinality(Unprocessed)
            /\ \A j, k \in DOMAIN b : j < k =>
                  b[j].created_at <= b[k].created_at /\ b[j].id # b[k].id
            /\ \A e \in Unprocessed \ Batch(last.actor) :
                  \A k \in DOMAIN b : b[k].created_at <= e.created_at

\* A claim of one event returned the oldest unprocessed event and left a
\* newer unprocessed one out.
C18_Witness ==
    /\ Claimed
    /\ last.body.limit = 1
    /\ Len(claimed[last.actor]) = 1
    /\ \E e \in Unprocessed : e.created_at > claimed[last.actor][1].created_at

(***************************************************************************)
(* C19 as stated: an event's processed starts false and flips to true      *)
(* exactly once: once it is true, no later operation (a second Ack by      *)
(* another consumer included) changes processed, processed_at or           *)
(* processed_by again.                                                     *)
(***************************************************************************)
C19_ProcessedOnce ==
    [][/\ \A i \in DOMAIN events' \ DOMAIN events : events'[i].processed = FALSE
       /\ \A i \in DOMAIN events :
             events[i].processed =>
                 /\ events'[i].processed = TRUE
                 /\ events'[i].processed_at = events[i].processed_at
                 /\ events'[i].processed_by = events[i].processed_by]_vars

(***************************************************************************)
(* C19 amended: an event's processed starts false (with processed_at and   *)
(* processed_by unset) and, once an Ack has set it true, no later          *)
(* operation sets it back.  Only an Ack of that event changes its          *)
(* processed, processed_at or processed_by, and every Ack of it, a second  *)
(* one by the same or another consumer included, leaves processed true and *)
(* sets processed_at and processed_by to its own time and consumer.        *)
(***************************************************************************)
C19_ProcessedStaysTrue ==
    [][/\ \A i \in DOMAIN events' \ DOMAIN events :
             /\ events'[i].processed = FALSE
             /\ events'[i].processed_at = NoTime
             /\ events'[i].processed_by = Null
       /\ \A i \in DOMAIN events :
             /\ events'[i].id = events[i].id
             /\ events[i].processed => events'[i].processed
             /\ events'[i] # events[i] =>
                   /\ last'.op = "mark_event_processed"
                   /\ last'.target = events[i].id
             /\ (last'.op = "mark_event_processed" /\ last'.target = events[i].id) =>
                   events'[i] = [events[i] EXCEPT !.processed = TRUE,
                                                  !.processed_at = clock,
                                                  !.processed_by = last'.actor]]_vars

\* notifier has just acknowledged an event that worker had acknowledged
\* before, and the event now carries notifier's acknowledgement.
C19_Witness ==
    /\ last.op = "mark_event_processed"
    /\ last.actor = "notifier"
    /\ <<"worker", last.target>> \in acked
    /\ \E i \in DOMAIN events :
          /\ events[i].id = last.target
          /\ events[i].processed
          /\ events[i].processed_by = "notifier"
          /\ events[i].processed_at = clock - 1

(***************************************************************************)
(* C20: delivery is at-least-once.  A claim marks nothing, so an event is  *)
(* processed only after it was returned by a Claim and acknowledged by a   *)
(* poller (it is never dropped undelivered); and an event that was         *)
(* returned by a Claim but not acknowledged is returned again by every     *)
(* later Claim whose limit reaches it (oldest first), to whichever poller  *)
(* asks, so that two pollers can hold the same event.                      *)
(***************************************************************************)
C20_AtLeastOnce ==
    /\ \A i \in DOMAIN events :
          events[i].processed =>
              /\ events[i].id \in delivered
              /\ \E c \in Pollers : <<c, events[i].id>> \in acked
    /\ \A c \in Pollers : \A k \in DOMAIN claimed[c] : claimed[c][k].id \in delivered
    /\ Claimed =>
          \A e \in Unprocessed :
              (e.id \in delivered /\ Cardinality(NotNewer(e)) <= last.body.limit)
                  => e \in Batch(last.actor)

\* worker claimed an event and did not acknowledge it; notifier's later
\* claim returned the same event, and both hold it unprocessed.
C20_Witness ==
    /\ Claimed
    /\ last.actor = "notifier"
    /\ acked = {}
    /\ \E e \in Unprocessed : e \in Batch("worker") /\ e \in Batch("notifier")


(***************************************************************************)
(* The remaining properties of the task lifecycle are stated over steps of *)
(* Spec, like C1 to C10.                                                   *)
(***************************************************************************)
\* The row of task t after the step.
TaskAfter(t) == get_task([tasks |-> tasks'], t)

(***************************************************************************)
(* C21: UpdateTask, ApproveTask and RejectTask on an id that matches no    *)
(* task fail with NotFound and change nothing: no task row, no AuditEntry  *)
(* (no HUMAN_APPROVED or HUMAN_REJECTED entry either) and no Event is      *)
(* written.                                                                *)
(***************************************************************************)
C21_UnknownTask ==
    [][(last'.op \in {"update_task", "approve_task", "reject_task"}
        /\ last'.target \notin TaskIds)
          => /\ last'.outcome = "NotFound"
             /\ UNCHANGED store_vars]_vars

\* A rejection of an unknown id has failed on a store that holds a task.
C21_Witness ==
    /\ last.op = "reject_task"
    /\ last.target \notin TaskIds
    /\ last.outcome = "NotFound"
    /\ Len(tasks) >= 1
    /\ \A i \in DOMAIN audit : audit[i].event_type # "HUMAN_REJECTED"

(***************************************************************************)
(* C22: an UpdateTask that fails with PreconditionFailed leaves the task   *)
(* unchanged, the other fields of the same patch and updated_at included,  *)
(* and writes no AuditEntry and no Event (nothing in the store changes).   *)
(***************************************************************************)
C22_RefusedUpdateWritesNothing ==
    [][(last'.op = "update_task" /\ last'.outcome = "PreconditionFailed")
          => /\ UNCHANGED store_vars
             /\ \A t \in TaskIds : TaskAfter(t) = Task(t)]_vars

\* A patch to DONE that also asked for requires_approval was refused, and
\* the task still has requires_approval false and its first updated_at.
C22_Witness ==
    /\ last.op = "update_task"
    /\ last.outcome = "PreconditionFailed"
    /\ DictGet(last.body, "status") = "DONE"
    /\ "requires_approval" \in DOMAIN last.body
    /\ last.body.requires_approval = TRUE
    /\ last.target \in TaskIds
    /\ Task(last.target).requires_approval = FALSE
    /\ Task(last.target).updated_at = Task(last.target).created_at


(***************************************************************************)
(* C23: after a successful RejectTask(id, actor, reason), whatever status  *)
(* the task had, it has status BACKLOG and approved_by and approved_at     *)
(* unset, and the log ends with a HUMAN_REJECTED entry for it with the     *)
(* reason in metadata and no old or new value.  From then on approved_by   *)
(* becomes set only by ApproveTask, and while the task requires approval   *)
(* and approved_by is unset every UpdateTask of it to DONE fails; so does  *)
(* the one that directly follows the rejection.                            *)
(***************************************************************************)
C23_RejectTask ==
    [][\A t \in TaskIds :
          /\ (Step("reject_task", t) /\ StepOk) =>
                /\ TaskAfter(t).status = "BACKLOG"
                /\ TaskAfter(t).approved_by = Null
                /\ TaskAfter(t).approved_at = NoTime
                /\ Len(NewAudit) >= 1
                /\ LET e == NewAudit[Len(NewAudit)]
                   IN  /\ e.event_type = "HUMAN_REJECTED"
                       /\ e.entity_id = t
                       /\ e.metadata = [reason |-> last'.body.reason]
                       /\ e.old_value = NoneDict
                       /\ e.new_value = NoneDict
          /\ Step("reject_task", t) => StepOk
          /\ (Task(t).approved_by = Null /\ TaskAfter(t).approved_by # Null)
                => Step("approve_task", t)
          /\ (StepToDone(t) /\ Task(t).requires_approval /\ Task(t).approved_by = Null
              /\ Task(t).status # "DONE")
                => last'.outcome = "PreconditionFailed"
          /\ (StepToDone(t) /\ Task(t).requires_approval
              /\ last.op = "reject_task" /\ last.target = t /\ last.outcome = "ok")
                => last'.outcome = "PreconditionFailed"]_vars

\* A task that requires approval and has a deliverable was rejected, and the
\* UpdateTask to DONE that followed was refused.
C23_Witness ==
    /\ last.op = "update_task"
    /\ DictGet(last.body, "status") = "DONE"
    /\ last.outcome = "PreconditionFailed"
    /\ last.target \in TaskIds
    /\ Task(last.target).requires_approval
    /\ Task(last.target).status = "BACKLOG"
    /\ Task(last.target).approved_by = Null
    /\ Task(last.target).approved_at = NoTime
    /\ Deliverables(last.target) # << >>
    /\ Len(audit) >= 1
    /\ audit[Len(audit)].event_type = "HUMAN_REJECTED"
    /\ audit[Len(audit)].entity_id = last.target
    /\ audit[Len(audit)].metadata = [reason |-> "rework"]


\* GET /audit?entity_id=t, oldest first: the entries selected for entity t.
Selected(t) == SelectSeq(audit, LAMBDA e : e.entity_id = t)
\* Entry e records a successful move of task t to DONE.
MovedToDone(e, t) ==
    /\ e.event_type = "TASK_UPDATED"
    /\ e.entity_id = t
    /\ DictGet(e.new_value, "status") = "DONE"
    /\ DictGet(e.old_value, "status") # "DONE"

(***************************************************************************)
(* C24 as stated: after create task, attempt DONE (rejected), add          *)
(* deliverable, retry DONE (accepted), the audit entries selected for the  *)
(* task entity contain TASK_CREATED, then DELIVERABLE_ADDED, then          *)
(* TASK_UPDATED(status), in that order: whenever the entries selected for  *)
(* a task hold its move to DONE, they hold a DELIVERABLE_ADDED before it   *)
(* and a TASK_CREATED before that.                                         *)
(***************************************************************************)
C24_SelectedForTask ==
    \A t \in TaskIds :
        LET sel == Selected(t)
        IN  \A j \in DOMAIN sel :
                MovedToDone(sel[j], t) =>
                    \E i, k \in DOMAIN sel :
                        /\ i < k /\ k < j
                        /\ sel[i].event_type = "TASK_CREATED"
                        /\ sel[k].event_type = "DELIVERABLE_ADDED"

(***************************************************************************)
(* C24 amended: a refused attempt to move a task to DONE adds no audit     *)
(* entry; when the move is accepted the audit log holds, in that order,    *)
(* TASK_CREATED for the task, DELIVERABLE_ADDED for one of its             *)
(* deliverables (entity_type deliverable, entity_id the deliverable's id,  *)
(* the task named in new_value.task_id) and the new TASK_UPDATED(status)   *)
(* for the task; the entries selected by the task's id hold no             *)
(* DELIVERABLE_ADDED.                                                      *)
(***************************************************************************)
C24_AuditOrder ==
    [][\A t \in TaskIds :
          /\ (StepToDone(t) /\ ~StepOk) => audit' = audit
          /\ (StepToDone(t) /\ StepOk /\ Task(t).status # "DONE") =>
                /\ Len(NewAudit) = 1
                /\ MovedToDone(NewAudit[1], t)
                /\ \E i, k \in DOMAIN audit :
                      /\ i < k
                      /\ audit[i].event_type = "TASK_CREATED"
                      /\ audit[i].entity_type = "task"
                      /\ audit[i].entity_id = t
                      /\ audit[k].event_type = "DELIVERABLE_ADDED"
                      /\ audit[k].entity_type = "deliverable"
                      /\ audit[k].new_value = [task_id |-> t]
                      /\ \E d \in DOMAIN Deliverables(t) :
                            audit[k].entity_id = Deliverables(t)[d].id
                /\ \A i \in DOMAIN audit' :
                      audit'[i].entity_id = t => audit'[i].event_type # "DELIVERABLE_ADDED"]_vars

\* Four operations have run, one of which wrote nothing, and the log holds
\* exactly TASK_CREATED, DELIVERABLE_ADDED and the accepted move to DONE.
C24_Witness ==
    /\ clock = 5
    /\ last.op = "update_task" /\ last.outcome = "ok"
    /\ DictGet(last.body, "status") = "DONE"
    /\ Len(tasks) = 1 /\ tasks[1].id = last.target /\ tasks[1].status = "DONE"
    /\ Len(deliverables) = 1
    /\ Len(audit) = 3
    /\ audit[1].event_type = "TASK_CREATED" /\ audit[1].entity_id = last.target
    /\ audit[2].event_type = "DELIVERABLE_ADDED"
    /\ audit[2].entity_id = deliverables[1].id
    /\ MovedToDone(audit[3], last.target)
    /\ Len(Selected(last.target)) = 2

InsightIds == {insights[i].id : i \in DOMAIN insights}

\* C26: a promote_insight that fails (Unauthorized when the actor is not the
\* router, NotFound when the insight is unknown) creates no task, writes no
\* AuditEntry and no Event, and leaves every insight as it was.
C26_FailedPromoteWritesNothing ==
    [][last'.op = "promote_insight"
          => /\ last'.actor # Router => last'.outcome = "Unauthorized"
             /\ (last'.actor = Router /\ last'.target \notin InsightIds)
                   => last'.outcome = "NotFound"
             /\ ~StepOk => UNCHANGED store_vars]_vars

\* The router asked to promote an insight that does not exist while another
\* insight is waiting: the request failed and nothing was promoted.
C26_Witness ==
    /\ last.op = "promote_insight"
    /\ last.actor = Router
    /\ last.outcome = "NotFound"
    /\ Len(insights) >= 1
    /\ \A i \in DOMAIN insights : insights[i].promoted_to_task_id = NoId
    /\ tasks = << >>

\* The tasks created by promoting an insight.
PromotedTasks == SelectSeq(tasks, LAMBDA t : t.source = "insight_promotion")

\* C27: promoted_to_task_id is set exactly once: once it holds a task id no
\* later operation, a second promote_insight included, changes it, and at most
\* one task is ever created from a given insight.
C27_PromotedOnce ==
    [][/\ \A i \in DOMAIN insights :
             insights[i].promoted_to_task_id # NoId
                => insights'[i].promoted_to_task_id = insights[i].promoted_to_task_id
       /\ Len(PromotedTasks)' <= Len(insights')]_vars

\* C29: a successful approve_task sets approved_by to the actor and approved_at
\* to the time of the request and leaves every other field of the task except
\* updated_at, the status included, as it was; it succeeds on every existing
\* task, with or without a deliverable (no DONE gate runs), changes no other
\* task and emits no Event.
C29_ApproveTask ==
    [][\A t \in TaskIds :
          Step("approve_task", t)
             => /\ StepOk
                /\ TaskAfter(t) = [Task(t) EXCEPT !.approved_by = last'.actor,
                                                  !.approved_at = clock,
                                                  !.updated_at = clock]
                /\ \A o \in TaskIds \ {t} : TaskAfter(o) = Task(o)
                /\ Len(tasks') = Len(tasks)
                /\ events' = events]_vars

\* A task that is in progress and has no deliverable was approved: it is still
\* in progress, and the only event is the one of its move to IN_PROGRESS.
C29_Witness ==
    /\ last.op = "approve_task"
    /\ last.outcome = "ok"
    /\ Task(last.target).status = "IN_PROGRESS"
    /\ Task(last.target).approved_by = last.actor
    /\ Task(last.target).approved_at = clock - 1
    /\ Deliverables(last.target) = << >>
    /\ Len(OfType(events, "STATUS_CHANGED")) = 1

\* The patch a request hands to update_task: the body of PATCH /tasks/{id},
\* the approval fields of approve_task, the reset of reject_task.
CallerPatch ==
    CASE last'.op = "update_task" -> last'.body
      [] last'.op = "approve_task" -> [approved_by |-> last'.actor, approved_at |-> clock]
      [] last'.op = "reject_task" -> [status |-> "BACKLOG", approved_by |-> Null,
                                      approved_at |-> NoTime]

\* C30 as stated: the TASK_UPDATED AuditEntry written by update_task has
\* new_value equal to the caller's patch, and old_value holds the pre-update
\* values of exactly the fields named in the caller's patch and no others.
C30_AuditIsCallerPatch ==
    [][\A t \in TaskIds :
          (Step("update_task", t) /\ StepOk)
             => /\ NewAudit[1].event_type = "TASK_UPDATED"
                /\ NewAudit[1].new_value = last'.body
                /\ DOMAIN NewAudit[1].old_value = DOMAIN last'.body
                /\ \A k \in DOMAIN last'.body : NewAudit[1].old_value[k] = Task(t)[k]]_vars

\* C30, amended: the TASK_UPDATED AuditEntry written by update_task (called by
\* PATCH /tasks/{id}, approve_task or reject_task) has new_value equal to the
\* caller's patch extended with updated_at = the time of the update, and
\* old_value holds the pre-update values of exactly the fields of the caller's
\* patch and updated_at, and of no others.
C30_AuditIsPatchAndUpdatedAt ==
    [][\A t \in TaskIds :
          (last'.op \in {"update_task", "approve_task", "reject_task"}
           /\ last'.target = t /\ StepOk)
             => /\ NewAudit[1].event_type = "TASK_UPDATED"
                /\ NewAudit[1].entity_id = t
                /\ NewAudit[1].new_value = DictSet(CallerPatch, "updated_at", clock)
                /\ DOMAIN NewAudit[1].old_value = DOMAIN CallerPatch \cup {"updated_at"}
                /\ \A k \in DOMAIN NewAudit[1].old_value :
                      NewAudit[1].old_value[k] = Task(t)[k]
                /\ Len(OfType(NewAudit, "TASK_UPDATED")) = 1]_vars

\* A task was created and, later, moved to IN_PROGRESS: the entry of the
\* update holds the old and the new status and both values of updated_at.
C30_Witness ==
    /\ last.op = "update_task"
    /\ last.outcome = "ok"
    /\ last.body = [status |-> "IN_PROGRESS"]
    /\ audit[Len(audit)].event_type = "TASK_UPDATED"
    /\ audit[Len(audit)].old_value = [status |-> "BACKLOG", updated_at |-> clock - 2]
    /\ audit[Len(audit)].new_value = [status |-> "IN_PROGRESS", updated_at |-> clock - 1]

(***************************************************************************)
(* The task list: callers create and update tasks and list them with the   *)
(* filters of GET /tasks.                                                  *)
(***************************************************************************)
\* No filter; one status; status, owner and priority together.
FilterInputs ==
    {[status |-> Null, owner_agent |-> Null, priority |-> Null],
     [status |-> "IN_PROGRESS", owner_agent |-> Null, priority |-> Null],
     [status |-> "BACKLOG", owner_agent |-> "researcher", priority |-> "P0"]}
\* One task, and the default of the route.
ListLimitInputs == {1, 50}

ListTasks ==
    \E f \in FilterInputs, limit \in ListLimitInputs :
        LET r == get_tasks(Store, f.status, f.owner_agent, f.priority, limit)
        IN  /\ clock <= MaxOps
            /\ DoStore("get_tasks", Null, NoId,
                       [status |-> f.status, owner_agent |-> f.owner_agent,
                        priority |-> f.priority, limit |-> limit],
                       [db |-> r.db, outcome |-> r.outcome, ret |-> NoId])
            /\ listed' = r.rows
            /\ UNCHANGED <<answer, poll_vars, inflight>>

NextReads ==
    \/ CreateTask
    \/ UpdateTask
    \/ ListTasks

SpecReads == Init /\ [][NextReads]_vars

\* The stored task matches the filters of the list request.
Requested(t, body) ==
    /\ body.status # Null => t.status = body.status
    /\ body.owner_agent # Null => t.owner_agent = body.owner_agent
    /\ body.priority # Null => t.priority = body.priority

\* C28: get_tasks is a pure read: it changes nothing in the store.  What it
\* returns are stored tasks that all have the requested status (owner,
\* priority), sorted by created_at descending, the newest ones when the limit
\* cuts the list; a second call with the same filters and limit, with no
\* other request in between, returns the same tasks in the same order.
C28_GetTasks ==
    [][last'.op = "get_tasks"
          => /\ UNCHANGED store_vars
             /\ \A i \in DOMAIN listed' :
                   /\ \E k \in DOMAIN tasks : tasks[k] = listed'[i]
                   /\ Requested(listed'[i], last'.body)
             /\ \A i, j \in DOMAIN listed' :
                   i < j => /\ listed'[i].created_at >= listed'[j].created_at
                            /\ listed'[i].id # listed'[j].id
             /\ Len(listed') <= last'.body.limit
             /\ \A k \in DOMAIN tasks :
                   (/\ Requested(tasks[k], last'.body)
                    /\ \A i \in DOMAIN listed' : listed'[i].id # tasks[k].id)
                      => /\ Len(listed') = last'.body.limit
                         /\ \A i \in DOMAIN listed' :
                               listed'[i].created_at >= tasks[k].created_at
             /\ (last.op = "get_tasks" /\ last.body = last'.body) => listed' = listed]_vars

\* Two tasks were created and the list was asked for twice: the last answer
\* holds both tasks, the newer one first.
C28_Witness ==
    /\ last.op = "get_tasks"
    /\ last.body.status = Null
    /\ last.body.limit = 50
    /\ clock = 5
    /\ Len(tasks) = 2
    /\ Len(audit) = 2
    /\ Len(listed) = 2
    /\ listed[1] = tasks[2]
    /\ listed[2] = tasks[1]
    /\ listed[1].created_at > listed[2].created_at

(***************************************************************************)
(* Overlapping requests.  update_task reads the task, checks the DONE gate *)
(* on what it read, and writes afterwards; nothing holds the row between   *)
(* the two, so the requests of other callers are served in between.  The   *)
(* store starts as create_task and add_deliverable leave it: one task,     *)
(* with or without requires_approval, that has its deliverable.            *)
(***************************************************************************)
\* Requests answered after those that set the store up.
MaxRaceOps == 3
\* The clock after create_task and add_deliverable.
RaceStart == 3

InitRace ==
    \E ra \in BOOLEAN :
        LET task == create_task([tasks |-> << >>, deliverables |-> << >>,
                                 insights |-> << >>, audit |-> << >>, events |-> << >>,
                                 sessions |-> << >>, ids |-> 0],
                                "researcher", "alice", Absent, "api", ra, 1)
            r == add_deliverable(task.db, task.ret, "researcher", 2)
        IN  /\ tasks = r.db.tasks
            /\ deliverables = r.db.deliverables
            /\ insights = r.db.insights
            /\ audit = r.db.audit
            /\ events = r.db.events
            /\ sessions = r.db.sessions
            /\ ids = r.db.ids
            /\ clock = RaceStart
            /\ last = [op |-> "add_deliverable", actor |-> "researcher",
                       target |-> task.ret, body |-> NoUpdates,
                       outcome |-> r.outcome, ret |-> r.ret]
            /\ answer = NoAnswer
            /\ claimed = [c \in Pollers |-> << >>]
            /\ delivered = {}
            /\ acked = {}
            /\ listed = << >>
            /\ inflight = [a \in Updaters |-> NoRequest]

\* One whole request, served while update_task calls may be in progress.
DoDuring(op, actor, target, body, r) ==
    /\ clock < RaceStart + MaxRaceOps
    /\ DoStore(op, actor, target, body, r)
    /\ UNCHANGED caller_vars

ApproveDuring ==
    \E t \in TaskIds, actor \in Humans :
        DoDuring("approve_task", actor, t, NoUpdates, approve_task(Store, t, actor, clock))

RejectDuring ==
    \E t \in TaskIds, actor \in Humans, reason \in ReasonInputs :
        DoDuring("reject_task", actor, t, [reason |-> reason],
                 reject_task(Store, t, actor, reason, clock))

\* PATCH /tasks/{id} with a status.
StatusPatches == {[status |-> s] : s \in StatusInputs}

\* update_task reads the task and checks the gate: it raises, or goes on.
UpdateRead ==
    \E a \in Updaters, t \in TaskIds, u \in StatusPatches :
        LET r == update_task_read(Store, t, u)
        IN  /\ inflight[a] = NoRequest
            /\ clock < RaceStart + MaxRaceOps
            /\ IF r.outcome = "ok"
               THEN /\ inflight' = [inflight EXCEPT ![a] =
                                       [task_id |-> t, updates |-> u, current |-> r.current]]
                    /\ UNCHANGED <<store_vars, clock, last, answer, poll_vars, listed>>
               ELSE DoDuring("update_task", a, t, u, Raise(Store, r.outcome))

\* update_task writes the row, the audit entry and the event, and returns.
UpdateWrite ==
    \E a \in Updaters :
        /\ inflight[a] # NoRequest
        /\ clock < RaceStart + MaxRaceOps
        /\ DoStore("update_task", a, inflight[a].task_id, inflight[a].updates,
                   update_task_write(Store, inflight[a].current, inflight[a].task_id, a,
                                     inflight[a].updates, clock))
        /\ inflight' = [inflight EXCEPT ![a] = NoRequest]
        /\ UNCHANGED <<answer, poll_vars, listed>>

NextRace ==
    \/ ApproveDuring
    \/ RejectDuring
    \/ UpdateRead
    \/ UpdateWrite

SpecRace == InitRace /\ [][NextRace]_vars

\* The step is the write of the update_task call that caller a has in progress.
Writes(a) == inflight[a] # NoRequest /\ inflight'[a] = NoRequest

\* The DONE gate's approval test passes on the row.
ApprovalOk(row) == row.requires_approval => row.approved_by # Null

\* C25: update_task's read-validate-write is not atomic.  The write of an
\* update_task call is applied whatever the requests served since its read
\* have done to the task: it succeeds, sets the patch's status and leaves
\* approved_by as it is now; and a task becomes DONE only by the write of a
\* call whose approval test passed on the row it read (or was skipped because
\* that row was DONE), not on the row as it is.  So an update_task(status = DONE) on a requires_approval task, with a
\* reject_task served between its read and its write, reaches DONE with
\* approved_by unset (C25_Witness).
C25_WriteAfterStaleRead ==
    [][/\ \A a \in Updaters :
             Writes(a)
                => /\ StepOk
                   /\ TaskAfter(inflight[a].task_id).status = inflight[a].updates.status
                   /\ TaskAfter(inflight[a].task_id).approved_by
                         = Task(inflight[a].task_id).approved_by
       /\ \A t \in TaskIds :
             (Task(t).status # "DONE" /\ TaskAfter(t).status = "DONE")
                => \E a \in Updaters : /\ Writes(a)
                                       /\ inflight[a].task_id = t
                                       /\ inflight[a].current.status # "DONE"
                                             => ApprovalOk(inflight[a].current)]_vars

\* The task requires approval; it was approved, rejected, and is DONE with
\* approved_by unset: the update_task that completed it had read it while it
\* was approved.
C25_Witness ==
    /\ last.op = "update_task"
    /\ last.outcome = "ok"
    /\ Task(last.target).status = "DONE"
    /\ Task(last.target).requires_approval
    /\ Task(last.target).approved_by = Null
    /\ \E i, j \in DOMAIN audit :
          /\ i < j
          /\ audit[i].event_type = "HUMAN_APPROVED"
          /\ audit[j].event_type = "HUMAN_REJECTED"
    /\ audit[Len(audit)].event_type = "TASK_UPDATED"
    /\ audit[Len(audit)].new_value.status = "DONE"
    /\ audit[Len(audit)].old_value.status = "BACKLOG"

\* The STATUS_CHANGED events of task t, in the order of their creation.
StatusEvents(t) ==
    SelectSeq(events, LAMBDA e : e.event_type = "STATUS_CHANGED" /\ e.payload.task_id = t)

\* C31: for each task, in every reachable state, those reached by interleaved
\* update_task and reject_task calls included, the STATUS_CHANGED events of
\* the task in creation order form a chain: the first has old_status BACKLOG,
\* each event's old_status is the previous event's new_status, no event has
\* old_status = new_status, and the last event's new_status is the task's
\* stored status.
C31_EventChain ==
    \A t \in TaskIds :
        LET ev == StatusEvents(t)
        IN  ev # << >>
              => /\ ev[1].payload.old_status = "BACKLOG"
                 /\ \A i \in 2..Len(ev) :
                       ev[i].payload.old_status = ev[i - 1].payload.new_status
                 /\ \A i \in DOMAIN ev :
                       ev[i].payload.old_status # ev[i].payload.new_status
                 /\ ev[Len(ev)].payload.new_status = Task(t).status

(***************************************************************************)
(* The consumer: one poller that claims a batch with a limit of one event  *)
(* or more, acknowledges the events of the batch one after the other, and  *)
(* claims again when none is left, while callers move a task from status   *)
(* to status.  The store starts as create_task and add_deliverable leave   *)
(* it, with the TASK_CREATED event waiting.                                *)
(* claimed holds what the consumer has received and not yet acknowledged.  *)
(* The consumer's requests are served within the current instant of the    *)
(* clock, so it is never held up by the bound on the callers' operations.  *)
(***************************************************************************)
\* One request of the consumer: the store becomes db.
DoPoll(op, c, target, body, db, outcome) ==
    /\ tasks' = db.tasks
    /\ deliverables' = db.deliverables
    /\ insights' = db.insights
    /\ audit' = db.audit
    /\ events' = db.events
    /\ sessions' = db.sessions
    /\ ids' = db.ids
    /\ last' = [op |-> op, actor |-> c, target |-> target, body |-> body,
                outcome |-> outcome, ret |-> NoId]
    /\ UNCHANGED <<clock, answer, client_vars>>

ConsumerClaim ==
    \E c \in Consumers, limit \in LimitInputs :
        /\ claimed[c] = << >>
        /\ \E r \in {get_unprocessed_events(Store, limit)} :
              /\ DoPoll("get_unprocessed_events", c, NoId, [limit |-> limit], r.db, r.outcome)
              /\ claimed' = [claimed EXCEPT ![c] = r.rows]
              /\ delivered' = delivered \cup {r.rows[i].id : i \in DOMAIN r.rows}
        /\ UNCHANGED acked

ConsumerAck ==
    \E c \in Consumers :
        /\ claimed[c] # << >>
        /\ LET e == Head(claimed[c]).id
               r == mark_event_processed(Store, e, c, clock)
           IN  /\ DoPoll("mark_event_processed", c, e, NoUpdates, r.db, r.outcome)
               /\ acked' = acked \cup {<<c, e>>}
        /\ claimed' = [claimed EXCEPT ![c] = Tail(@)]
        /\ UNCHANGED delivered

\* Requests of the callers served while the consumer polls.
MaxEmits == 2

\* PATCH /tasks/{id} with a status, by which callers emit STATUS_CHANGED.
UpdateStatus ==
    \E t \in TaskIds, actor \in Humans, u \in StatusPatches :
        /\ clock < RaceStart + MaxEmits
        /\ DoStore("update_task", actor, t, u, update_task(Store, t, actor, u, clock))
        /\ UNCHANGED caller_vars

NextConsumer ==
    \/ UpdateStatus
    \/ ConsumerClaim
    \/ ConsumerAck

\* The consumer keeps polling and keeps acknowledging what it received.
SpecConsumer ==
    /\ InitRace
    /\ [][NextConsumer]_vars
    /\ WF_vars(ConsumerClaim)
    /\ WF_vars(ConsumerAck)

\* Every event emitted so far has been returned by a claim and is processed.
AllConsumed ==
    \A i \in DOMAIN events : events[i].id \in delivered /\ events[i].processed

\* C32: with a consumer that keeps claiming with a limit of one or more and
\* acknowledges every event it receives, every emitted event is eventually
\* returned by a claim and eventually processed, also when further events
\* are emitted in the meantime: again and again all the events emitted so far
\* have been returned and are processed (events are never removed, returned
\* stays returned and processed stays true).  And no event is returned by a
\* claim before an older one is (oldest first: newer events cannot overtake
\* it).
C32_EveryEventConsumed ==
    /\ []<>AllConsumed
    /\ [](\A i, j \in DOMAIN events :
             (events[i].created_at < events[j].created_at /\ events[j].id \in delivered)
                => events[i].id \in delivered)

\* Every event is processed and was returned by a claim, and one of them was
\* emitted while an older one was still waiting to be acknowledged.
C32_Witness ==
    /\ Len(events) >= 2
    /\ AllConsumed
    /\ \E i, j \in DOMAIN events :
          /\ events[i].created_at < events[j].created_at
          /\ events[j].created_at <= events[i].processed_at

\* approved_by and approved_at of the row are both set or both unset.
ApprovalPaired(row) == row.approved_by # Null <=> row.approved_at # NoTime

\* C33: in every state reached through the intake operations a task's
\* approved_by is set if and only if its approved_at is set: a task is created
\* with both unset, a successful approve_task sets both, a successful
\* reject_task clears both, and no other operation changes either.
C33_ApprovalPaired ==
    [][/\ \A i \in DOMAIN tasks' : ApprovalPaired(tasks'[i])
       /\ \A i \in DOMAIN tasks' :
             i \notin DOMAIN tasks
                => tasks'[i].approved_by = Null /\ tasks'[i].approved_at = NoTime
       /\ \A t \in TaskIds :
             /\ (Step("approve_task", t) /\ StepOk)
                   => /\ TaskAfter(t).approved_by = last'.actor
                      /\ TaskAfter(t).approved_at = clock
             /\ (Step("reject_task", t) /\ StepOk)
                   => /\ TaskAfter(t).approved_by = Null
                      /\ TaskAfter(t).approved_at = NoTime
             /\ ~(StepOk /\ last'.target = t
                        /\ last'.op \in {"approve_task", "reject_task"})
                   => /\ TaskAfter(t).approved_by = Task(t).approved_by
                      /\ TaskAfter(t).approved_at = Task(t).approved_at]_vars

\* A task was approved and then rejected: both fields are unset again.
C33_Witness ==
    /\ last.op = "reject_task"
    /\ last.outcome = "ok"
    /\ Task(last.target).approved_by = Null
    /\ Task(last.target).approved_at = NoTime
    /\ \E i \in DOMAIN audit :
          /\ audit[i].event_type = "HUMAN_APPROVED"
          /\ audit[i].entity_id = last.target

====
